---- MODULE Spec2Model ----
(***************************************************************************)
(* Model of the casbin redis watcher (watcher.go, options.go).             *)
(*                                                                         *)
(* One Watcher object, the goroutines it starts (the subscription          *)
(* supervisor of NewWatcher and the messageInProcessor goroutine), the     *)
(* host threads that call Update / SetUpdateCallback / Close, and the      *)
(* environment: the redis connections, the broker that routes PUBLISH to   *)
(* subscribed connections, and one peer that publishes its own id.         *)
(***************************************************************************)
EXTENDS Integers, Sequences, FiniteSets, TLC

\* ---------------------------------------------------------------- bounds
MaxDials   == 2   \* connections redis.Dial can create in one behaviour
MaxFail    == 1   \* disturbances injected by the network / conn owner
MaxBurst   == 3   \* calls of Update() in the burst specification
MaxUpdate  == 2   \* calls of Update(), by the host or by the peer
MaxCount   == 2   \* saturation of the SUBSCRIBE counter
MaxLiveUpdate == 1 \* calls of Update() in the liveness and metrics specifications
MaxSetters == 2 \* options given to the constructor in the options specification

\* ------------------------------------------------------- values and sets
Nil       == 0                       \* a nil redis.Conn
NilFunc   == "nil"                   \* a nil func(string)
NoPanic   == "none"                  \* no goroutine has panicked
ExtConns  == {1, 2}                  \* connections the caller may supply
DialConns == 3 .. (2 + MaxDials)     \* connections redis.Dial returns
Conns     == ExtConns \cup DialConns

SelfID    == "idW"                   \* options.LocalID of the watcher
PeerID    == "idP"                   \* LocalID of another watcher (peer)
DefaultChannel == "/casbin"
OtherChannel   == "/alt"
NoChan         == "-"

Closers   == {"c1", "c2"}            \* host threads that may call Close()
Threads   == {"ctor", "sup"}         \* callers of connect()

VARIABLES
  kind,            \* which constructor is used: "full" | "publish"
  options,         \* WatcherOptions after the setters ran
  callbackPending, \* WatcherOptions.callbackPending
  pubConn,         \* Watcher.pubConn  (Nil or a connection)
  subConn,         \* Watcher.subConn
  callback,        \* Watcher.callback (Nil or a function name)
  closed,          \* Watcher.closed has been closed
  once,            \* Watcher.once: "fresh" | "running" | "done"
  pc,              \* position of the constructor and of the supervisor
  sup,             \* supervisor locals: psc, msg, err
  proc,            \* processor goroutine: pc, data, timeOut
  closer,          \* position of each Close() caller
  upd,             \* the host thread inside Update(): pc, err, sent
  updLeft,         \* environment: Update() calls still to come, host and peer
  conn,            \* per connection: "unused" | "live" | "dead"
  subs,            \* per connection: channel it is subscribed to
  inbox,           \* per connection: events the broker has sent to it
  closeCalls,      \* history: number of Close() calls per connection
  teardown,        \* history: executions of each step of the finalizer body
  lastPub,         \* history: the last PUBLISH command of Update()
  lastRet,         \* history: the last result returned by Update()
  calls,           \* history: arguments of the callback invocations
  dequeued,        \* history: payloads taken off messagesIn
  subscribes,      \* history: number of SUBSCRIBE commands issued
  failsLeft,       \* environment: disturbances still to come
  ctorErr,         \* history: the constructor's connect() returned an error
  emitted,         \* the WatcherMetrics records the last step gave to the sink
  setters,         \* the constructor's `setters ...WatcherOption` and its loop index
  panicked         \* the panic that ended the process, or NoPanic

vars == << emitted, setters, kind, options, callbackPending, pubConn, subConn, callback,
           closed, once, pc, sup, proc, closer, upd, updLeft, conn, subs,
           inbox,
           closeCalls, teardown, lastPub, lastRet, calls, dequeued,
           subscribes, failsLeft, ctorErr, panicked >>

\* -------------------------------------------------------------- helpers
\* redis.Conn.Err(): non-nil once the connection is broken or closed
ConnErr(c) == conn[c] # "live"

\* redis.Conn.Close(): the connection is gone; the call is recorded
CloseConn(c) ==
  /\ conn' = [conn EXCEPT ![c] = "dead"]
  /\ subs' = [subs EXCEPT ![c] = NoChan]
  /\ inbox' = [inbox EXCEPT ![c] = << >>]
  /\ closeCalls' = [closeCalls EXCEPT ![c] = @ + 1]

\* the next connection redis.Dial would create (Nil: none left)
FreshConn ==
  IF \E c \in DialConns : conn[c] = "unused"
  THEN CHOOSE c \in DialConns :
         conn[c] = "unused" /\ \A d \in DialConns : d < c => conn[d] # "unused"
  ELSE Nil

MsgEvent(d) == [k |-> "message", data |-> d, count |-> 0]
SubEvent(n) == [k |-> "subscription", data |-> "", count |-> n]

\* the broker routes a PUBLISH to every live connection subscribed to ch
Route(ch, d) ==
  [c \in Conns |-> IF conn[c] = "live" /\ subs[c] = ch
                   THEN Append(inbox[c], MsgEvent(d)) ELSE inbox[c]]

\* ------------------------------------------------------------- options
\* the caller's choice of WithRedisPubConnection / WithRedisSubConnection
SuppliedConns ==
  { <<Nil, Nil>>, <<1, Nil>>, <<Nil, 2>>, <<1, 2>>, <<1, 1>> }

\* NewWatcher / NewPublishWatcher: defaults, then the setters
AllOptions ==
  { [ Channel |-> ch, PubConn |-> sc[1], SubConn |-> sc[2],
      Password |-> pw, IgnoreSelf |-> ig, LocalID |-> SelfID,
      RecordMetrics |-> rm, SquashMessages |-> sq ] :
      ch \in {DefaultChannel, OtherChannel}, sc \in SuppliedConns,
      pw \in BOOLEAN, ig \in BOOLEAN, rm \in {NilFunc, "m"},
      sq \in BOOLEAN }

\* The configurations explored.  The processor reads IgnoreSelf and
\* SquashMessages only, connect() reads the supplied connections and the
\* password only: every connection set-up is explored with the default
\* flags, every flag combination with one set-up that can redial.  A
\* password is explored where a dial can happen, a channel other than the
\* peer's with two distinct supplied connections.
OptionChoices ==
  { o \in AllOptions :
      /\ o.RecordMetrics = NilFunc
      /\ o.Password => Nil \in {o.PubConn, o.SubConn}
      /\ o.Channel = OtherChannel <=> (o.PubConn = 1 /\ o.SubConn = 2)
      /\ \/ ~o.IgnoreSelf /\ ~o.SquashMessages
         \/ o.PubConn = 1 /\ o.SubConn = Nil /\ ~o.Password }

NoPublish == [conn |-> Nil, ok |-> FALSE, channel |-> NoChan, payload |-> ""]
ProcInit == [pc |-> "none", data |-> "", timeOut |-> "long"]
SupInit  == [psc |-> Nil, msg |-> "", err |-> FALSE]

\* the state before the constructor runs: constructor k, options o,
\* n calls of Update() to come
InitFields(k, o, n) ==
  /\ emitted = << >>
  /\ kind = k
  /\ options = o
  /\ callbackPending = FALSE
  /\ pubConn = Nil
  /\ subConn = Nil
  /\ callback = NilFunc
  /\ closed = FALSE
  /\ once = "fresh"
  /\ pc = [ctor |-> "connectPub", sup |-> "none"]
  /\ sup = SupInit
  /\ proc = ProcInit
  /\ closer = [c \in Closers |-> "idle"]
  /\ upd = [pc |-> "idle", err |-> FALSE, sent |-> 0]
  /\ updLeft = n
  /\ conn = [c \in Conns |-> IF c \in ExtConns THEN "live" ELSE "unused"]
  /\ subs = [c \in Conns |-> NoChan]
  /\ inbox = [c \in Conns |-> << >>]
  /\ closeCalls = [c \in Conns |-> 0]
  /\ teardown = [chan |-> 0, sub |-> 0, pub |-> 0]
  /\ lastPub = NoPublish
  /\ lastRet = "none"
  /\ calls = << >>
  /\ dequeued = << >>
  /\ subscribes = 0
  /\ failsLeft = MaxFail
  /\ ctorErr = FALSE
  /\ panicked = NoPanic

\* no setter is left to apply
NoSetters == [list |-> << >>, i |-> 0]

InitWith(k, o, n) == InitFields(k, o, n) /\ setters = NoSetters

Init ==
  \E k \in {"full", "publish"}, o \in OptionChoices :
    /\ k = "publish" => ~o.IgnoreSelf /\ ~o.SquashMessages
    /\ InitWith(k, o, MaxUpdate)

\* ------------------------------------------------------------- metrics
\* createMetrics(name, startTime, err): the record's name and its Error
Metric(nm, err) == [name |-> nm, err |-> err]

\* a record without an error
Succeeded(r) == ~r.err

\* a watcher that reports to the sink on success only
EmitOnSuccess(recs) ==
  IF options.RecordMetrics # NilFunc THEN SelectSeq(recs, Succeeded)
  ELSE << >>

\* `if w.options.RecordMetrics != nil { w.options.RecordMetrics(...) }`
Emit(recs) == IF options.RecordMetrics # NilFunc THEN recs ELSE << >>

\* ------------------------------------------------------------- connect
connVars == << conn, subs, inbox, closeCalls >>

\* a supervisor that tries again at once when connect() failed
AfterConnectErrorNoDelay(t) == IF t = "ctor" THEN "failed" ELSE "select"

\* a constructor that goes on after connect() returned an error
AfterConnectErrorIgnored(t) == IF t = "ctor" THEN "start" ELSE "sleep"

\* where connect()'s caller continues: NewWatcher / NewPublishWatcher
\* return the error, the supervisor logs it and sleeps
AfterConnectError(t) == IF t = "ctor" THEN "failed" ELSE "sleep"
AfterConnectOk(t)    == IF t = "ctor" THEN "start" ELSE "subscribe"

\* results of dial(): the dial fails, the AUTH fails, or a connection
DialResults ==
  {"dialError"}
  \cup (IF FreshConn # Nil THEN {"ok"} ELSE {})
  \cup (IF FreshConn # Nil /\ options.Password THEN {"authError"} ELSE {})

\* the records of a dial() that returns a connection
DialOkMetrics ==
  << Metric("RedisDial", FALSE) >>
  \o (IF options.Password THEN << Metric("RedisDoAuth", FALSE) >>
      ELSE << >>)

\* the records of a dial() whose AUTH fails
DialAuthErrorMetrics ==
  << Metric("RedisDial", FALSE), Metric("RedisDoAuth", TRUE),
     Metric("RedisClose", FALSE) >>

\* a dial() that leaves the connection open when its AUTH fails
DialAuthErrorNoClose ==
  /\ conn' = [conn EXCEPT ![FreshConn] = "live"]
  /\ UNCHANGED << subs, inbox, closeCalls >>

\* dial() when AUTH fails: the fresh connection is closed, never returned
DialAuthError ==
  /\ conn' = [conn EXCEPT ![FreshConn] = "dead"]
  /\ closeCalls' = [closeCalls EXCEPT ![FreshConn] = @ + 1]
  /\ UNCHANGED << subs, inbox >>

DialOk ==
  /\ conn' = [conn EXCEPT ![FreshConn] = "live"]
  /\ UNCHANGED << subs, inbox, closeCalls >>

\* connect() without the test of Err(): only a nil handle is connected
NeedsConnectNilOnly(h) == h = Nil

\* connect(): `w.pubConn == nil || w.pubConn.Err() != nil`, same for subConn
NeedsConnect(h) == h = Nil \/ ConnErr(h)

\* a connect that reuses no supplied connection and always dials
SuppliedNever(c) == FALSE

\* connectPub() / connectSub(): `if w.options.PubConn != nil`, and the same
\* for SubConn: the caller supplied a connection for that side
Supplied(c) == c # Nil

\* connect(), publish side, and connectPub()
ConnectPub(t) ==
  /\ panicked = NoPanic
  /\ pc[t] = "connectPub"
  /\ IF ~NeedsConnect(pubConn)
     THEN /\ pc' = [pc EXCEPT ![t] = "connectSub"]
          /\ emitted' = << >>
          /\ UNCHANGED << pubConn, connVars, ctorErr >>
     ELSE IF Supplied(options.PubConn)
     THEN /\ pubConn' = options.PubConn
          /\ pc' = [pc EXCEPT ![t] = "connectSub"]
          /\ emitted' = << >>
          /\ UNCHANGED << connVars, ctorErr >>
     ELSE \E r \in DialResults :
            \/ /\ r = "ok"
               /\ DialOk
               /\ emitted' = Emit(DialOkMetrics)
               /\ UNCHANGED ctorErr
               /\ pubConn' = FreshConn
               /\ pc' = [pc EXCEPT ![t] = "connectSub"]
            \/ /\ r = "authError"
               /\ DialAuthError
               /\ emitted' = Emit(DialAuthErrorMetrics)
               /\ pc' = [pc EXCEPT ![t] = AfterConnectError(t)]
               /\ ctorErr' = (ctorErr \/ t = "ctor")
               /\ UNCHANGED pubConn
            \/ /\ r = "dialError"
               /\ emitted' = Emit(<< Metric("RedisDial", TRUE) >>)
               /\ pc' = [pc EXCEPT ![t] = AfterConnectError(t)]
               /\ ctorErr' = (ctorErr \/ t = "ctor")
               /\ UNCHANGED << pubConn, connVars >>
  /\ UNCHANGED << setters, kind, options, callbackPending, subConn, callback, closed,
                  once, sup, proc, closer, upd, updLeft,
                  teardown, lastPub, lastRet,
                  calls, dequeued, subscribes, failsLeft, panicked >>

\* connect(), subscribe side, and connectSub()
ConnectSub(t) ==
  /\ panicked = NoPanic
  /\ pc[t] = "connectSub"
  /\ IF ~NeedsConnect(subConn)
     THEN /\ pc' = [pc EXCEPT ![t] = AfterConnectOk(t)]
          /\ emitted' = << >>
          /\ UNCHANGED << subConn, connVars, ctorErr >>
     ELSE IF Supplied(options.SubConn)
     THEN /\ subConn' = options.SubConn
          /\ pc' = [pc EXCEPT ![t] = AfterConnectOk(t)]
          /\ emitted' = << >>
          /\ UNCHANGED << connVars, ctorErr >>
     ELSE \E r \in DialResults :
            \/ /\ r = "ok"
               /\ DialOk
               /\ emitted' = Emit(DialOkMetrics)
               /\ UNCHANGED ctorErr
               /\ subConn' = FreshConn
               /\ pc' = [pc EXCEPT ![t] = AfterConnectOk(t)]
            \/ /\ r = "authError"
               /\ DialAuthError
               /\ emitted' = Emit(DialAuthErrorMetrics)
               /\ pc' = [pc EXCEPT ![t] = AfterConnectError(t)]
               /\ ctorErr' = (ctorErr \/ t = "ctor")
               /\ UNCHANGED subConn
            \/ /\ r = "dialError"
               /\ emitted' = Emit(<< Metric("RedisDial", TRUE) >>)
               /\ pc' = [pc EXCEPT ![t] = AfterConnectError(t)]
               /\ ctorErr' = (ctorErr \/ t = "ctor")
               /\ UNCHANGED << subConn, connVars >>
  /\ UNCHANGED << setters, kind, options, callbackPending, pubConn, callback, closed,
                  once, sup, proc, closer, upd, updLeft,
                  teardown, lastPub, lastRet,
                  calls, dequeued, subscribes, failsLeft, panicked >>

\* -------------------------------------------------------- constructors
\* the goroutines a constructor starts once connect() succeeded:
\* a publish-only constructor that starts the goroutines as NewWatcher does
StartsGoroutinesAlways(k) == TRUE

\* NewWatcher starts the processor and the supervisor,
\* NewPublishWatcher starts nothing
StartsGoroutines(k) == k = "full"

\* NewWatcher / NewPublishWatcher after a successful connect()
NewWatcherReturn ==
  /\ panicked = NoPanic
  /\ pc["ctor"] = "start"
  /\ IF StartsGoroutines(kind)
     THEN /\ callbackPending' = FALSE
          /\ proc' = [ProcInit EXCEPT !.pc = "select"]
          /\ pc' = [ctor |-> "done", sup |-> "select"]
     ELSE /\ pc' = [pc EXCEPT !["ctor"] = "done"]
          /\ UNCHANGED << callbackPending, proc >>
  /\ emitted' = << >>
  /\ UNCHANGED << setters, kind, ctorErr, options, pubConn, subConn, callback, closed, once,
                  sup, closer, upd, updLeft, connVars, teardown, lastPub, lastRet, calls,
                  dequeued, subscribes, failsLeft, panicked >>

\* the watcher exists and has been handed to the host
Constructed == pc["ctor"] = "done"

\* ---------------------------------------------------------- supervisor
Min(a, b) == IF a < b THEN a ELSE b

\* NewWatcher's goroutine: select on w.closed with a default branch
SupSelect ==
  /\ panicked = NoPanic
  /\ pc["sup"] = "select"
  /\ pc' = [pc EXCEPT !["sup"] = IF closed THEN "done" ELSE "connectPub"]
  /\ emitted' = << >>
  /\ UNCHANGED << setters, kind, ctorErr, options, callbackPending, pubConn, subConn,
                  callback, closed, once, sup, proc, closer, upd, updLeft, connVars,
                  teardown, lastPub, lastRet, calls, dequeued, subscribes,
                  failsLeft, panicked >>

\* subscribe(): psc over w.subConn, then psc.Subscribe(Channel)
SupSubscribe ==
  /\ panicked = NoPanic
  /\ pc["sup"] = "subscribe"
  /\ IF ConnErr(subConn)
     THEN /\ sup' = [sup EXCEPT !.psc = subConn, !.err = TRUE]
          /\ pc' = [pc EXCEPT !["sup"] = "sleep"]
          /\ emitted' = Emit(<< Metric("PubSubSubscribe", TRUE) >>)
          /\ UNCHANGED << subs, inbox, subscribes >>
     ELSE /\ sup' = [sup EXCEPT !.psc = subConn, !.err = FALSE]
          /\ subs' = [subs EXCEPT ![subConn] = options.Channel]
          /\ inbox' = [inbox EXCEPT ![subConn] = Append(@, SubEvent(1))]
          /\ subscribes' = Min(subscribes + 1, MaxCount)
          /\ emitted' = Emit(<< Metric("PubSubSubscribe", FALSE) >>)
          /\ pc' = [pc EXCEPT !["sup"] = "receive"]
  /\ UNCHANGED << setters, kind, ctorErr, options, callbackPending, pubConn, subConn,
                  callback, closed, once, proc, closer, upd, updLeft, conn, closeCalls,
                  teardown, lastPub, lastRet, calls, dequeued, failsLeft, panicked >>

\* a receive loop that does not look at the count of a confirmation
AfterEventAnyCount(e) == IF e.k = "message" THEN "send" ELSE "receive"

\* a receive loop whose clean stop returns without the unsubscribe
AfterEventNoDefer(e) ==
  IF e.k = "message" THEN "send"
  ELSE IF e.count = 0 THEN "sleep"
  ELSE "receive"

\* what the receive loop does with one event of psc.Receive()
AfterEvent(e) ==
  IF e.k = "message" THEN "send"
  ELSE IF e.count = 0 THEN "unsubscribe"
  ELSE "receive"

\* subscribe(): one psc.Receive() and the switch on its result
SupReceive ==
  /\ panicked = NoPanic
  /\ pc["sup"] = "receive"
  /\ IF ConnErr(sup.psc)
     THEN /\ sup' = [sup EXCEPT !.err = TRUE]
          /\ pc' = [pc EXCEPT !["sup"] = "unsubscribe"]
          /\ emitted' = Emit(<< Metric("PubSubReceive", TRUE) >>)
          /\ UNCHANGED inbox
     ELSE /\ inbox[sup.psc] # << >>
          /\ LET e == Head(inbox[sup.psc]) IN
               /\ inbox' = [inbox EXCEPT ![sup.psc] = Tail(@)]
               /\ sup' = [sup EXCEPT !.msg = IF e.k = "message"
                                              THEN e.data ELSE @,
                                     !.err = FALSE]
               /\ pc' = [pc EXCEPT !["sup"] = AfterEvent(e)]
               /\ emitted' = Emit(<< Metric("PubSubReceive", FALSE) >>)
  /\ UNCHANGED << setters, kind, ctorErr, options, callbackPending, pubConn, subConn,
                  callback, closed, once, proc, closer, upd, updLeft, conn, subs,
                  closeCalls, teardown, lastPub, lastRet, calls, dequeued,
                  subscribes, failsLeft, panicked >>

\* the deferred unsubscribe(psc) when subscribe() returns
SupUnsubscribe ==
  /\ panicked = NoPanic
  /\ pc["sup"] = "unsubscribe"
  /\ IF ConnErr(sup.psc)
     THEN UNCHANGED << subs, inbox >>
     ELSE /\ subs' = [subs EXCEPT ![sup.psc] = NoChan]
          /\ inbox' = [inbox EXCEPT ![sup.psc] = Append(@, SubEvent(0))]
  /\ emitted' = Emit(<< Metric("PubSubUnsubscribe", ConnErr(sup.psc)) >>)
  /\ pc' = [pc EXCEPT !["sup"] = "sleep"]
  /\ UNCHANGED << setters, kind, ctorErr, options, callbackPending, pubConn, subConn,
                  callback, closed, once, sup, proc, closer, upd, updLeft, conn,
                  closeCalls, teardown, lastPub, lastRet, calls, dequeued,
                  subscribes, failsLeft, panicked >>

\* time.Sleep(2 * time.Second), then the next iteration
SupSleep ==
  /\ panicked = NoPanic
  /\ pc["sup"] = "sleep"
  /\ pc' = [pc EXCEPT !["sup"] = "select"]
  /\ sup' = SupInit
  /\ emitted' = << >>
  /\ UNCHANGED << setters, kind, ctorErr, options, callbackPending, pubConn, subConn,
                  callback, closed, once, proc, closer, upd, updLeft, connVars,
                  teardown, lastPub, lastRet, calls, dequeued, subscribes,
                  failsLeft, panicked >>

\* ----------------------------------------------------------- processor
\* the switch with the comparison of the self-ignore arms inverted
DecisionInverted(ignoreSelf, squash, data, localID) ==
  IF ~ignoreSelf /\ ~squash THEN "call"
  ELSE IF ignoreSelf /\ data # localID THEN "ignore"
  ELSE IF squash THEN "pending"
  ELSE "call"

\* a switch that defers every payload it does not ignore, whatever
\* SquashMessages says
DecisionSquashAlways(ignoreSelf, squash, data, localID) ==
  IF ignoreSelf /\ data = localID THEN "ignore" ELSE "pending"

\* the switch of messageInProcessor, arm by arm
Decision(ignoreSelf, squash, data, localID) ==
  IF ~ignoreSelf /\ ~squash THEN "call"
  ELSE IF ignoreSelf /\ data = localID THEN "ignore"
  ELSE IF ~ignoreSelf /\ squash THEN "pending"
  ELSE IF ignoreSelf /\ data # localID /\ ~squash THEN "call"
  ELSE IF ignoreSelf /\ data # localID /\ squash THEN "pending"
  ELSE "call"

\* `if w.options.callbackPending { timeOut = SquashTimeoutShort }`
TimeOutAfter(pending, timeOut) == IF pending THEN "short" ELSE timeOut

\* case <-w.closed: the processor goroutine returns
ProcClosed ==
  /\ panicked = NoPanic
  /\ proc.pc = "select"
  /\ closed
  /\ proc' = [proc EXCEPT !.pc = "done"]
  /\ emitted' = << >>
  /\ UNCHANGED << setters, kind, ctorErr, options, callbackPending, pubConn, subConn,
                  callback, closed, once, pc, sup, closer, upd, updLeft, connVars,
                  teardown, lastPub, lastRet, calls, dequeued, subscribes,
                  failsLeft, panicked >>

\* a processor that does not test the callback before it takes the payload
InstalledAlways(cb) == TRUE

\* `if w.callback != nil`
Installed(cb) == cb # NilFunc

\* case msg := <-w.messagesIn, up to the test `w.callback != nil`;
\* messagesIn is unbuffered: the send of subscribe() completes here
ProcReceive ==
  /\ panicked = NoPanic
  /\ proc.pc = "select"
  /\ pc["sup"] = "send"
  /\ pc' = [pc EXCEPT !["sup"] = "receive"]
  /\ sup' = [sup EXCEPT !.msg = ""]
  /\ dequeued' = Append(dequeued, [data |-> sup.msg, cb |-> callback # NilFunc])
  /\ IF Installed(callback)
     THEN proc' = [proc EXCEPT !.pc = "switch", !.data = sup.msg]
     ELSE proc' = [proc EXCEPT
                     !.timeOut = TimeOutAfter(callbackPending, @)]
  /\ emitted' = << >>
  /\ UNCHANGED << setters, kind, ctorErr, options, callbackPending, pubConn, subConn,
                  callback, closed, once, closer, upd, updLeft, connVars,
                  teardown, lastPub, lastRet, calls, subscribes,
                  failsLeft, panicked >>

\* the switch: call w.callback(data), mark pending, or ignore
ProcSwitch ==
  /\ panicked = NoPanic
  /\ proc.pc = "switch"
  /\ LET d == Decision(options.IgnoreSelf, options.SquashMessages,
                       proc.data, options.LocalID) IN
       \/ /\ d = "call"
          /\ IF callback = NilFunc
             THEN /\ panicked' = "nil callback"
                  /\ UNCHANGED << calls, proc >>
             ELSE /\ calls' = Append(calls, proc.data)
                  /\ proc' = [proc EXCEPT !.pc = "callback"]
                  /\ UNCHANGED panicked
          /\ UNCHANGED callbackPending
       \/ /\ d = "pending"
          /\ callbackPending' = TRUE
          /\ proc' = [proc EXCEPT !.pc = "select", !.timeOut = "short"]
          /\ UNCHANGED << calls, panicked >>
       \/ /\ d = "ignore"
          /\ proc' = [proc EXCEPT
                        !.pc = "select",
                        !.timeOut = TimeOutAfter(callbackPending, @)]
          /\ UNCHANGED << calls, panicked, callbackPending >>
  /\ emitted' = << >>
  /\ UNCHANGED << setters, kind, ctorErr, options, pubConn, subConn, callback, closed, once,
                  pc, sup, closer, upd, updLeft, connVars, teardown, lastPub, lastRet,
                  dequeued, subscribes, failsLeft >>

\* the callback called from the switch returns
ProcCallbackReturn ==
  /\ panicked = NoPanic
  /\ proc.pc = "callback"
  /\ proc' = [proc EXCEPT !.pc = "select",
                          !.timeOut = TimeOutAfter(callbackPending, @)]
  /\ emitted' = << >>
  /\ UNCHANGED << setters, kind, ctorErr, options, callbackPending, pubConn, subConn,
                  callback, closed, once, pc, sup, closer, upd, updLeft, connVars,
                  teardown, lastPub, lastRet, calls, dequeued, subscribes,
                  failsLeft, panicked >>

\* a timeout that calls the callback whether or not a payload is pending
FlushDueAlways(pending) == TRUE

\* the timeout branch: `if w.options.callbackPending`
FlushDue(pending) == pending

\* case <-time.After(timeOut): flush a pending callback
ProcTimeout ==
  /\ panicked = NoPanic
  /\ proc.pc = "select"
  /\ IF FlushDue(callbackPending)
     THEN /\ callbackPending' = FALSE
          /\ IF callback = NilFunc
             THEN /\ panicked' = "nil callback"
                  /\ UNCHANGED << calls, proc >>
             ELSE /\ calls' = Append(calls, proc.data)
                  /\ proc' = [proc EXCEPT !.pc = "flush"]
                  /\ UNCHANGED panicked
     ELSE UNCHANGED << callbackPending, calls, proc, panicked >>
  /\ emitted' = << >>
  /\ UNCHANGED << setters, kind, ctorErr, options, pubConn, subConn, callback, closed, once,
                  pc, sup, closer, upd, updLeft, connVars, teardown, lastPub, lastRet,
                  dequeued, subscribes, failsLeft >>

\* the callback called from the timeout returns: back to the long timeout
ProcFlushReturn ==
  /\ panicked = NoPanic
  /\ proc.pc = "flush"
  /\ proc' = [proc EXCEPT !.pc = "select", !.timeOut = "long"]
  /\ emitted' = << >>
  /\ UNCHANGED << setters, kind, ctorErr, options, callbackPending, pubConn, subConn,
                  callback, closed, once, pc, sup, closer, upd, updLeft, connVars,
                  teardown, lastPub, lastRet, calls, dequeued, subscribes,
                  failsLeft, panicked >>

\* ---------------------------------------------------------------- Close
\* a finalizer without sync.Once: every caller runs the function
RunsBodyAlways(o) == TRUE

\* sync.Once.Do: only the first caller runs the function
RunsBody(o) == o = "fresh"

\* Close() -> finalizer(w) -> w.once.Do(...)
CloseCall(c) ==
  /\ panicked = NoPanic
  /\ Constructed
  /\ closer[c] = "idle"
  /\ c = "c2" => closer["c1"] # "idle"   \* callers are alike: c1 is first
  /\ IF RunsBody(once)
     THEN /\ once' = "running"
          /\ closer' = [closer EXCEPT ![c] = "closeChan"]
     ELSE /\ closer' = [closer EXCEPT
                          ![c] = IF once = "done" THEN "returned"
                                 ELSE "blocked"]
          /\ UNCHANGED once
  /\ emitted' = << >>
  /\ UNCHANGED << setters, kind, ctorErr, options, callbackPending, pubConn, subConn,
                  callback, closed, pc, sup, proc, upd, updLeft, connVars,
                  teardown, lastPub, lastRet, calls, dequeued, subscribes,
                  failsLeft, panicked >>

\* a caller that found the Once running returns when the body is done
CloseUnblock(c) ==
  /\ panicked = NoPanic
  /\ closer[c] = "blocked"
  /\ once = "done"
  /\ closer' = [closer EXCEPT ![c] = "returned"]
  /\ emitted' = << >>
  /\ UNCHANGED << setters, kind, ctorErr, options, callbackPending, pubConn, subConn,
                  callback, closed, once, pc, sup, proc, upd, updLeft,
                  connVars, teardown, lastPub, lastRet, calls, dequeued,
                  subscribes, failsLeft, panicked >>

\* finalizer body: close(w.closed); closing a closed channel panics
FinCloseChan(c) ==
  /\ panicked = NoPanic
  /\ closer[c] = "closeChan"
  /\ IF closed
     THEN /\ panicked' = "close of closed channel"
          /\ UNCHANGED << closed, teardown, closer >>
     ELSE /\ closed' = TRUE
          /\ teardown' = [teardown EXCEPT !.chan = @ + 1]
          /\ closer' = [closer EXCEPT ![c] = "closeSub"]
          /\ UNCHANGED panicked
  /\ emitted' = << >>
  /\ UNCHANGED << setters, kind, ctorErr, options, callbackPending, pubConn, subConn,
                  callback, once, pc, sup, proc, upd, updLeft, connVars,
                  lastPub, lastRet, calls, dequeued, subscribes, failsLeft >>

\* finalizer body: w.subConn.Close()
FinCloseSub(c) ==
  /\ panicked = NoPanic
  /\ closer[c] = "closeSub"
  /\ IF subConn = Nil
     THEN /\ panicked' = "nil connection"
          /\ emitted' = << >>
          /\ UNCHANGED << closer, connVars, teardown >>
     ELSE /\ CloseConn(subConn)
          /\ emitted' = Emit(<< Metric("RedisClose", ConnErr(subConn)) >>)
          /\ teardown' = [teardown EXCEPT !.sub = @ + 1]
          /\ closer' = [closer EXCEPT ![c] = "closePub"]
          /\ UNCHANGED panicked
  /\ UNCHANGED << setters, kind, ctorErr, options, callbackPending, pubConn, subConn,
                  callback, closed, once, pc, sup, proc, upd, updLeft,
                  lastPub, lastRet, calls, dequeued, subscribes,
                  failsLeft >>

\* finalizer body: w.pubConn.Close(); the Once is done, Close() returns
FinClosePub(c) ==
  /\ panicked = NoPanic
  /\ closer[c] = "closePub"
  /\ IF pubConn = Nil
     THEN /\ panicked' = "nil connection"
          /\ emitted' = << >>
          /\ UNCHANGED << closer, once, connVars, teardown >>
     ELSE /\ CloseConn(pubConn)
          /\ emitted' = Emit(<< Metric("RedisClose", ConnErr(pubConn)) >>)
          /\ teardown' = [teardown EXCEPT !.pub = @ + 1]
          /\ once' = "done"
          /\ closer' = [closer EXCEPT ![c] = "returned"]
          /\ UNCHANGED panicked
  /\ UNCHANGED << setters, kind, ctorErr, options, callbackPending, pubConn, subConn,
                  callback, closed, pc, sup, proc, upd, updLeft,
                  lastPub, lastRet, calls, dequeued, subscribes,
                  failsLeft >>

\* --------------------------------------------------------------- Update
\* a PUBLISH of a fixed text instead of the LocalID
PublishCommandFixedText ==
  [channel |-> options.Channel, payload |-> "casbin rules updated"]

\* the command Update() sends: PUBLISH <Channel> <LocalID>
PublishCommand == [channel |-> options.Channel, payload |-> options.LocalID]

\* an Update() that publishes again when the PUBLISH failed
AfterPublishRetry(ok) == IF ok THEN "return" ELSE "publish"

\* Update() after pubConn.Do returned: it returns, whatever the result
AfterPublish(ok) == "return"

\* Update() is entered
UpdateCall ==
  /\ panicked = NoPanic
  /\ Constructed
  /\ upd.pc = "idle"
  /\ updLeft > 0
  /\ updLeft' = updLeft - 1
  /\ upd' = [pc |-> "publish", err |-> FALSE, sent |-> 0]
  /\ emitted' = << >>
  /\ UNCHANGED << setters, kind, ctorErr, options, callbackPending, pubConn, subConn,
                  callback, closed, once, pc, sup, proc, closer, connVars,
                  teardown, lastPub, lastRet, calls, dequeued, subscribes,
                  failsLeft, panicked >>

\* Update() with the result `ok` of pubConn.Do: return err / return nil
UpdateStep(ok) ==
  /\ upd' = [pc |-> IF AfterPublish(ok) = "return" THEN "idle" ELSE "publish",
             err |-> ~ok, sent |-> Min(upd.sent + 1, 2)]
  /\ lastRet' = IF AfterPublish(ok) = "return"
                THEN (IF ok THEN "nil" ELSE "error") ELSE lastRet
  /\ emitted' = Emit(<< Metric("PubSubPublish", ~ok) >>)

\* w.pubConn.Do("PUBLISH", Channel, LocalID) and the return of Update()
UpdatePublish ==
  /\ panicked = NoPanic
  /\ upd.pc = "publish"
  /\ LET cmd == PublishCommand IN
       \/ /\ ~ConnErr(pubConn)
          /\ inbox' = Route(cmd.channel, cmd.payload)
          /\ lastPub' = [conn |-> pubConn, ok |-> TRUE,
                         channel |-> cmd.channel, payload |-> cmd.payload]
          /\ UpdateStep(TRUE)
          /\ UNCHANGED << conn, subs, failsLeft >>
       \/ /\ ~ConnErr(pubConn)
          /\ failsLeft > 0
          /\ failsLeft' = failsLeft - 1
          /\ conn' = [conn EXCEPT ![pubConn] = "dead"]
          /\ subs' = [subs EXCEPT ![pubConn] = NoChan]
          /\ inbox' = [inbox EXCEPT ![pubConn] = << >>]
          /\ lastPub' = [conn |-> pubConn, ok |-> FALSE,
                         channel |-> cmd.channel, payload |-> cmd.payload]
          /\ UpdateStep(FALSE)
       \/ /\ ConnErr(pubConn)
          /\ lastPub' = [conn |-> pubConn, ok |-> FALSE,
                         channel |-> cmd.channel, payload |-> cmd.payload]
          /\ UpdateStep(FALSE)
          /\ UNCHANGED << conn, subs, inbox, failsLeft >>
  /\ UNCHANGED << setters, kind, ctorErr, options, callbackPending, pubConn, subConn,
                  callback, closed, once, pc, sup, proc, closer, updLeft,
                  closeCalls, teardown, calls, dequeued, subscribes, panicked >>

\* ---------------------------------------------------- SetUpdateCallback
Callbacks == {NilFunc, "f"}

SetUpdateCallback(cb) ==
  /\ panicked = NoPanic
  /\ Constructed
  /\ callback # cb
  /\ callback' = cb
  /\ emitted' = << >>
  /\ UNCHANGED << setters, kind, ctorErr, options, callbackPending, pubConn, subConn, closed,
                  once, pc, sup, proc, closer, upd, updLeft, connVars,
                  teardown, lastPub, lastRet, calls, dequeued, subscribes,
                  failsLeft, panicked >>

\* ---------------------------------------------------------- environment
\* a peer watcher calls its Update(): PUBLISH /casbin <its LocalID>
PeerUpdate ==
  /\ panicked = NoPanic
  /\ updLeft > 0
  /\ updLeft' = updLeft - 1
  /\ inbox' = Route(DefaultChannel, PeerID)
  /\ emitted' = << >>
  /\ UNCHANGED << setters, kind, ctorErr, options, callbackPending, pubConn, subConn,
                  callback, closed, once, pc, sup, proc, closer, upd,
                  conn, subs, closeCalls, teardown, lastPub,
                  lastRet, calls, dequeued, subscribes, failsLeft, panicked >>

\* the network breaks a connection the watcher holds
ConnFail(c) ==
  /\ panicked = NoPanic
  /\ c \in {pubConn, subConn} \ {Nil}
  /\ conn[c] = "live"
  /\ failsLeft > 0
  /\ failsLeft' = failsLeft - 1
  /\ conn' = [conn EXCEPT ![c] = "dead"]
  /\ subs' = [subs EXCEPT ![c] = NoChan]
  /\ inbox' = [inbox EXCEPT ![c] = << >>]
  /\ emitted' = << >>
  /\ UNCHANGED << setters, kind, ctorErr, options, callbackPending, pubConn, subConn,
                  callback, closed, once, pc, sup, proc, closer, upd,
                  updLeft, closeCalls, teardown, lastPub, lastRet, calls,
                  dequeued, subscribes, panicked >>

\* the owner of a supplied connection sends UNSUBSCRIBE on it
OwnerUnsubscribe(c) ==
  /\ panicked = NoPanic
  /\ c \in ExtConns
  /\ conn[c] = "live"
  /\ subs[c] # NoChan
  /\ failsLeft > 0
  /\ failsLeft' = failsLeft - 1
  /\ subs' = [subs EXCEPT ![c] = NoChan]
  /\ inbox' = [inbox EXCEPT ![c] = Append(@, SubEvent(0))]
  /\ emitted' = << >>
  /\ UNCHANGED << setters, kind, ctorErr, options, callbackPending, pubConn, subConn,
                  callback, closed, once, pc, sup, proc, closer, upd,
                  updLeft, conn, closeCalls, teardown, lastPub, lastRet,
                  calls, dequeued, subscribes, panicked >>

\* -------------------------------------------------------- specification
Next ==
  \/ \E t \in Threads : ConnectPub(t)
  \/ \E t \in Threads : ConnectSub(t)
  \/ NewWatcherReturn
  \/ SupSelect
  \/ SupSubscribe
  \/ SupReceive
  \/ SupUnsubscribe
  \/ SupSleep
  \/ ProcClosed
  \/ ProcReceive
  \/ ProcSwitch
  \/ ProcCallbackReturn
  \/ ProcTimeout
  \/ ProcFlushReturn
  \/ \E c \in Closers : CloseCall(c)
  \/ \E c \in Closers : CloseUnblock(c)
  \/ \E c \in Closers : FinCloseChan(c)
  \/ \E c \in Closers : FinCloseSub(c)
  \/ \E c \in Closers : FinClosePub(c)
  \/ UpdateCall
  \/ UpdatePublish
  \/ \E cb \in Callbacks : SetUpdateCallback(cb)
  \/ PeerUpdate
  \/ \E c \in Conns : ConnFail(c)
  \/ \E c \in Conns : OwnerUnsubscribe(c)

Spec == Init /\ [][Next]_vars

\* The configuration of TestWithEnforcerSquash and TestWithEnforcerIgnoreSelf
\* together (one supplied connection for both sides, both flags set), with
\* room for a burst of MaxBurst payloads.
BurstOptions ==
  [ Channel |-> DefaultChannel, PubConn |-> 1, SubConn |-> 1,
    Password |-> FALSE, IgnoreSelf |-> TRUE, LocalID |-> SelfID,
    RecordMetrics |-> NilFunc, SquashMessages |-> TRUE ]

\* the same without squashing, where the switch calls the callback itself
InitBurst ==
  \/ InitWith("full", BurstOptions, MaxBurst)
  \/ InitWith("full", [BurstOptions EXCEPT !.SquashMessages = FALSE],
              MaxUpdate)

SpecBurst == InitBurst /\ [][Next]_vars

\* ------------------------------------------------- properties: delivery
Last(s)  == s[Len(s)]
Front(s) == SubSeq(s, 1, Len(s) - 1)

\* a payload the processor must not deliver: self-origin under IgnoreSelf
SelfOrigin(d) == options.IgnoreSelf /\ d = options.LocalID

\* the payloads of q that were dequeued with a callback installed and are
\* not self-origin, in the order of q
RECURSIVE Deliverable(_)
Deliverable(q) ==
  IF q = << >> THEN << >>
  ELSE IF Head(q).cb /\ ~SelfOrigin(Head(q).data)
       THEN << Head(q).data >> \o Deliverable(Tail(q))
       ELSE Deliverable(Tail(q))

\* the dequeued payloads the switch has already decided on
Decided == IF proc.pc = "switch" THEN Front(dequeued) ELSE dequeued

\* C1: with squashing disabled, the callback has been invoked exactly once
\* for every payload that was dequeued with a callback installed and is not
\* self-origin, in arrival order, with the payload as its argument.
C1_ImmediateDelivery ==
  ~options.SquashMessages => calls = Deliverable(Decided)

C1_Witness ==
  /\ ~options.SquashMessages
  /\ Len(calls) = 2
  /\ calls[1] # calls[2]

\* C2: with squashing enabled, a burst of two or more non-suppressed
\* payloads dequeued before the first flush yields one callback, and its
\* argument is the last non-suppressed payload of the burst.
C2_SquashedBurst ==
  ( /\ options.SquashMessages
    /\ proc.pc = "flush"
    /\ Len(calls) = 1
    /\ Len(Deliverable(dequeued)) >= 2 )
  => calls = << Last(Deliverable(dequeued)) >>

\* C3: with IgnoreSelf, the callback is never invoked with the watcher's
\* own LocalID.
C3_NoSelfCallback ==
  options.IgnoreSelf =>
    \A i \in 1 .. Len(calls) : calls[i] # options.LocalID

\* ------------------------------------------------ properties: round trip
\* a step in which Update() of the watcher published successfully
HostPublished == upd.pc = "publish" /\ upd'.sent # upd.sent /\ ~upd'.err
\* a step in which Update() of the peer published
PeerPublished == updLeft' # updLeft /\ upd' = upd

\* the subscription loop of the watcher is running on a live connection
\* that is subscribed to channel ch
Subscribed(ch) ==
  /\ pc["sup"] \in {"receive", "send"}
  /\ conn[sup.psc] = "live"
  /\ subs[sup.psc] = ch

ClosePanics == {"close of closed channel", "nil connection"}
SomeCloseReturned == \E c \in Closers : closer[c] = "returned"

\* C5 (amended): whatever the number of Close() calls, the teardown body
\* runs once: w.closed is closed once, subConn.Close() and pubConn.Close()
\* are each called once, and no call panics.
C5_TeardownOnce ==
  /\ teardown.chan <= 1 /\ teardown.sub <= 1 /\ teardown.pub <= 1
  /\ panicked \notin ClosePanics
  /\ SomeCloseReturned => teardown = [chan |-> 1, sub |-> 1, pub |-> 1]

C5_Witness ==
  /\ \A c \in Closers : closer[c] = "returned"
  /\ teardown = [chan |-> 1, sub |-> 1, pub |-> 1]

\* C5 as claimed: the channel is closed once, every connection is closed
\* at most once, and no call panics.
C5_EachConnectionOnce ==
  /\ teardown.chan <= 1
  /\ panicked \notin ClosePanics
  /\ \A c \in Conns : closeCalls[c] <= 1

\* C8: once a Close() has returned, the connections the watcher holds as
\* pubConn and subConn have been closed.
C8_HandlesClosed ==
  SomeCloseReturned =>
    /\ closeCalls[pubConn] >= 1 /\ conn[pubConn] = "dead"
    /\ closeCalls[subConn] >= 1 /\ conn[subConn] = "dead"

C9_FailedConstruction ==
  ctorErr =>
    /\ pc["ctor"] = "failed"
    /\ pc["sup"] = "none"
    /\ proc.pc = "none"
    /\ subscribes = 0
    /\ dequeued = << >>
    /\ calls = << >>

\* the subscribe side fails its AUTH after the publish side was dialed
C9_Witness ==
  /\ ctorErr
  /\ kind = "full"
  /\ pubConn # Nil
  /\ subConn = Nil
  /\ \E c \in DialConns : closeCalls[c] = 1

\* C10: a watcher made by NewPublishWatcher has no supervisor and no
\* processor: it sends no SUBSCRIBE, receives no message and invokes no
\* callback.
C10_PublishOnly ==
  kind = "publish" =>
    /\ pc["sup"] = "none"
    /\ proc.pc = "none"
    /\ subscribes = 0
    /\ \A c \in Conns : subs[c] = NoChan /\ inbox[c] = << >>
    /\ sup = SupInit
    /\ dequeued = << >>
    /\ calls = << >>

\* ... while its Update() publishes
C10_Witness ==
  /\ kind = "publish"
  /\ lastPub.ok
  /\ lastRet = "nil"

\* ------------------------------------------------ properties: reconnect
\* Configurations for the liveness of the supervisor: the subscribe side
\* dialed by the watcher (with and without squashing), and supplied by the
\* caller.
LiveOptions ==
  { o \in OptionChoices :
      /\ ~o.IgnoreSelf /\ ~o.Password
      /\ \/ o.PubConn = 1 /\ o.SubConn = Nil
         \/ o.PubConn = 1 /\ o.SubConn = 1 /\ ~o.SquashMessages }

InitLive == \E o \in LiveOptions : InitWith("full", o, MaxLiveUpdate)

\* a dial of the supervisor that succeeds
SupDialSub == ConnectSub("sup") /\ subConn' # subConn
SupDialPub == ConnectPub("sup") /\ pubConn' # pubConn

\* The goroutines keep running (the Go scheduler is fair, time.Sleep and
\* time.After elapse, the user callback returns, a started Close() or
\* Update() runs on) and the broker is reachable: a dial that is tried
\* again and again succeeds.
LiveSpec ==
  /\ InitLive /\ [][Next]_vars
  /\ WF_vars(SupSelect)
  /\ WF_vars(ConnectPub("sup")) /\ WF_vars(ConnectSub("sup"))
  /\ SF_vars(SupDialPub) /\ SF_vars(SupDialSub)
  /\ WF_vars(SupSubscribe) /\ WF_vars(SupReceive)
  /\ WF_vars(SupUnsubscribe) /\ WF_vars(SupSleep)
  /\ WF_vars(ProcClosed)
  /\ WF_vars(ProcReceive) /\ WF_vars(ProcSwitch)
  /\ WF_vars(ProcCallbackReturn)
  /\ WF_vars(ProcTimeout) /\ WF_vars(ProcFlushReturn)
  /\ \A c \in Closers :
       /\ WF_vars(CloseUnblock(c)) /\ WF_vars(FinCloseChan(c))
       /\ WF_vars(FinCloseSub(c)) /\ WF_vars(FinClosePub(c))
  /\ WF_vars(UpdatePublish)

\* the subscribe connection failed under the running subscription loop of
\* an open watcher that has callback "f" installed
SubLoopFailed ==
  /\ pc["sup"] = "receive"
  /\ conn[sup.psc] = "dead"
  /\ ~closed
  /\ callback = "f"

\* the supervisor subscribed again and its loop runs on a live connection
Resubscribed == Subscribed(options.Channel) /\ subscribes >= 2

\* the watcher was closed, or the host changed the callback
HostIntervened == closed \/ callback # "f"

RECURSIVE LastInstalled(_)
LastInstalled(q) ==
  IF q = << >> THEN ""
  ELSE IF Last(q).cb THEN Last(q).data
  ELSE LastInstalled(Front(q))

\* C11: a payload dequeued while no callback is installed changes neither
\* the pending flag nor the remembered payload and invokes nothing, and
\* every callback invocation carries the last payload that was dequeued
\* with a callback installed, never a payload dequeued without one.
C11_NoReplay ==
  [][ /\ (dequeued' # dequeued /\ ~Last(dequeued').cb)
         => /\ callbackPending' = callbackPending
            /\ proc'.data = proc.data
            /\ proc'.pc = "select"
            /\ calls' = calls
      /\ calls' # calls
         => /\ LastInstalled(dequeued) # ""
            /\ calls' = Append(calls, LastInstalled(dequeued))
    ]_vars

\* a payload was dropped for want of a callback, and the callback installed
\* afterwards received only the next payload
C11_Witness ==
  /\ Len(dequeued) = 2
  /\ ~dequeued[1].cb /\ dequeued[1].data = PeerID
  /\ dequeued[2].cb /\ dequeued[2].data = SelfID
  /\ calls = << SelfID >>
  /\ callback = "f"

\* ------------------------------------------------ properties: shutdown
\* both goroutines have returned (a panic ends the whole process)
ProcessorReturned  == proc.pc = "done" \/ panicked # NoPanic
SupervisorReturned == pc["sup"] = "done" \/ panicked # NoPanic

\* C12: once the shutdown signal is raised, the processor goroutine and
\* the supervisor goroutine both eventually return.
C12_GoroutinesReturn ==
  closed ~> (ProcessorReturned /\ SupervisorReturned)

\* the processor's half of C12
C12_ProcessorReturns == closed ~> ProcessorReturned

\* the teardown of Close() has run to its end
CloseCompleted == once = "done"

\* a step that dials, replaces a connection handle or sends SUBSCRIBE
Reconnects ==
  \/ \E c \in DialConns : conn[c] = "unused" /\ conn'[c] # "unused"
  \/ pubConn' # pubConn
  \/ subConn' # subConn
  \/ pc["sup"] = "subscribe" /\ pc'["sup"] = "receive"

\* C13: once Close() has completed, no step dials, replaces a connection
\* handle or sends SUBSCRIBE.
C13_NoReconnectAfterClose ==
  [][ CloseCompleted => ~Reconnects ]_vars

\* ------------------------------------------------------ option setters
DefaultShortMs == 1       \* defaultShortMessageInTimeout, in milliseconds
DefaultLongMs  == 60000   \* defaultLongMessageInTimeout, in milliseconds
GeneratedID    == "uuid"  \* uuid.New().String()

\* `w.options = WatcherOptions{...}`: the fields the constructors set, the
\* other fields at their zero values
Defaults ==
  [ Channel |-> DefaultChannel, PubConn |-> Nil, SubConn |-> Nil,
    Password |-> "", Protocol |-> "tcp", IgnoreSelf |-> FALSE,
    LocalID |-> GeneratedID, RecordMetrics |-> NilFunc,
    SquashMessages |-> FALSE, SquashTimeoutShort |-> DefaultShortMs,
    SquashTimeoutLong |-> DefaultLongMs, callbackPending |-> FALSE ]

\* one WatcherOption: the setter's name and its argument, by type
Setter(nm, str, bool, cn, ms) ==
  [name |-> nm, s |-> str, b |-> bool, c |-> cn, d |-> ms]

SetterCalls ==
  { Setter(nm, str, FALSE, Nil, 0) :
      nm \in {"Channel", "Password", "Protocol", "LocalID"},
      str \in {"a", "b"} }
  \cup { Setter("RecordMetrics", f, FALSE, Nil, 0) : f \in {NilFunc, "m"} }
  \cup { Setter(nm, "", bool, Nil, 0) :
           nm \in {"IgnoreSelf", "SquashMessages"}, bool \in BOOLEAN }
  \cup { Setter(nm, "", FALSE, cn, 0) :
           nm \in {"WithRedisSubConnection", "WithRedisPubConnection"},
           cn \in ExtConns }
  \cup { Setter(nm, "", FALSE, Nil, ms) :
           nm \in {"SquashTimeoutShort", "SquashTimeoutLong"},
           ms \in {5, 7} }

\* the lists of at most n setters
RECURSIVE SetterLists(_)
SetterLists(n) ==
  IF n = 0 THEN { << >> }
  ELSE SetterLists(n - 1)
       \cup { Append(l, st) : l \in SetterLists(n - 1), st \in SetterCalls }

\* the subscribe-connection setter storing into the publish field
ApplySwapped(st, o) ==
  IF st.name = "WithRedisSubConnection" THEN [o EXCEPT !.PubConn = st.c]
  ELSE IF st.name = "WithRedisPubConnection" THEN [o EXCEPT !.SubConn = st.c]
  ELSE o

\* setter(&w.options): the body of each option function of options.go
Apply(st, o) ==
  CASE st.name = "Channel"  -> [o EXCEPT !.Channel = st.s]
    [] st.name = "Password" -> [o EXCEPT !.Password = st.s]
    [] st.name = "Protocol" -> [o EXCEPT !.Protocol = st.s]
    [] st.name = "WithRedisSubConnection" -> [o EXCEPT !.SubConn = st.c]
    [] st.name = "WithRedisPubConnection" -> [o EXCEPT !.PubConn = st.c]
    [] st.name = "LocalID" -> [o EXCEPT !.LocalID = st.s]
    [] st.name = "IgnoreSelf" -> [o EXCEPT !.IgnoreSelf = st.b]
    [] st.name = "SquashMessages" -> [o EXCEPT !.SquashMessages = st.b]
    [] st.name = "RecordMetrics" -> [o EXCEPT !.RecordMetrics = st.s]
    [] st.name = "SquashTimeoutShort" ->
         [o EXCEPT !.SquashTimeoutShort = st.d]
    [] st.name = "SquashTimeoutLong" ->
         [o EXCEPT !.SquashTimeoutLong = st.d]

\* `for _, setter := range setters { setter(&w.options) }`: one iteration
ApplySetter ==
  /\ setters.i < Len(setters.list)
  /\ options' = Apply(setters.list[setters.i + 1], options)
  /\ setters' = [setters EXCEPT !.i = @ + 1]
  /\ UNCHANGED << emitted, kind, ctorErr, callbackPending, pubConn, subConn,
                  callback, closed, once, pc, sup, proc, closer, upd,
                  updLeft, connVars, teardown, lastPub, lastRet, calls,
                  dequeued, subscribes, failsLeft, panicked >>

\* either constructor, after the defaults and before the setters
InitOptions ==
  \E k \in {"full", "publish"}, l \in SetterLists(MaxSetters) :
    /\ InitFields(k, Defaults, 0)
    /\ setters = [list |-> l, i |-> 0]

NextOptions == ApplySetter

SpecOptions == InitOptions /\ [][NextOptions]_vars

\* the field a setter is documented to set, and the value it is given
FieldOf(st) ==
  CASE st.name = "WithRedisSubConnection" -> "SubConn"
    [] st.name = "WithRedisPubConnection" -> "PubConn"
    [] OTHER -> st.name
ValueOf(st) ==
  CASE st.name \in {"Channel", "Password", "Protocol", "LocalID",
                    "RecordMetrics"} -> st.s
    [] st.name \in {"IgnoreSelf", "SquashMessages"} -> st.b
    [] st.name \in {"WithRedisSubConnection",
                    "WithRedisPubConnection"} -> st.c
    [] OTHER -> st.d

\* the value of field f after the setters of l: that of the last setter of
\* f in l, the default when there is none
RECURSIVE Expected(_, _)
Expected(f, l) ==
  IF l = << >> THEN Defaults[f]
  ELSE IF FieldOf(Last(l)) = f THEN ValueOf(Last(l))
  ELSE Expected(f, Front(l))

\* C14: the configuration starts from the defaults; after each setter
\* every field holds the value of the last setter applied to it, the
\* default if none was, so a setter changes its own field and no other.
C14_SettersInOrder ==
  \A f \in DOMAIN Defaults :
    options[f] = Expected(f, SubSeq(setters.list, 1, setters.i))

\* two setters of one field were applied and the later value stands
C14_Witness ==
  /\ setters.i = 2
  /\ setters.list[1].name = "Channel" /\ setters.list[2].name = "Channel"
  /\ setters.list[1].s # setters.list[2].s
  /\ options.Channel = setters.list[2].s
  /\ options.Protocol = "tcp"

\* ------------------------------------------------- properties: metrics
\* Configurations for the metrics: both sides dialed with a password (dial,
\* AUTH and the close after a failed AUTH), and a supplied subscribe
\* connection with squashing; each with and without a sink.
MetricsOptions ==
  { o \in AllOptions :
      /\ o.Channel = DefaultChannel /\ ~o.IgnoreSelf
      /\ \/ /\ o.PubConn = Nil /\ o.SubConn = Nil
            /\ o.Password /\ ~o.SquashMessages
         \/ /\ o.PubConn = Nil /\ o.SubConn = 2
            /\ ~o.Password /\ o.SquashMessages }

InitMetrics ==
  \E k \in {"full", "publish"}, o \in MetricsOptions :
    /\ k = "publish" => ~o.SquashMessages
    /\ InitWith(k, o, MaxLiveUpdate)

SpecMetrics == InitMetrics /\ [][Next]_vars

\* a step in which connect() dials
DialStep ==
  \E t \in Threads :
    \/ /\ pc[t] = "connectPub" /\ pc'[t] # "connectPub"
       /\ options.PubConn = Nil
       /\ (pubConn = Nil \/ conn[pubConn] # "live")
    \/ /\ pc[t] = "connectSub" /\ pc'[t] # "connectSub"
       /\ options.SubConn = Nil
       /\ (subConn = Nil \/ conn[subConn] # "live")

\* a step in which psc.Receive() returns
ReceiveStep ==
  /\ pc["sup"] = "receive"
  /\ conn' = conn /\ closeCalls' = closeCalls
  /\ \/ pc'["sup"] # "receive"
     \/ Len(inbox'[sup.psc]) < Len(inbox[sup.psc])

\* the operations a step performs, read off the change of state: the name
\* of each operation's metric and whether the operation failed
Performed ==
  IF DialStep THEN
    IF \E c \in DialConns : conn[c] = "unused" /\ conn'[c] = "live"
    THEN IF options.Password
         THEN << Metric("RedisDial", FALSE), Metric("RedisDoAuth", FALSE) >>
         ELSE << Metric("RedisDial", FALSE) >>
    ELSE IF \E c \in DialConns : conn[c] = "unused" /\ conn'[c] = "dead"
    THEN << Metric("RedisDial", FALSE), Metric("RedisDoAuth", TRUE),
            Metric("RedisClose", FALSE) >>
    ELSE << Metric("RedisDial", TRUE) >>
  ELSE IF pc["sup"] = "subscribe" /\ pc'["sup"] # "subscribe"
  THEN << Metric("PubSubSubscribe", pc'["sup"] = "sleep") >>
  ELSE IF ReceiveStep
  THEN << Metric("PubSubReceive", sup'.err) >>
  ELSE IF pc["sup"] = "unsubscribe" /\ pc'["sup"] # "unsubscribe"
  THEN << Metric("PubSubUnsubscribe", conn[sup.psc] # "live") >>
  ELSE IF upd.pc = "publish" /\ upd' # upd
  THEN << Metric("PubSubPublish", upd'.err) >>
  ELSE IF teardown'.sub # teardown.sub
  THEN << Metric("RedisClose", conn[subConn] # "live") >>
  ELSE IF teardown'.pub # teardown.pub
  THEN << Metric("RedisClose", conn[pubConn] # "live") >>
  ELSE << >>

\* C15: with a sink, every step hands it exactly one record per operation
\* the step performs (dial, AUTH, close, publish, subscribe, receive,
\* unsubscribe), failed or not; without a sink no record is emitted.
C15_OneRecordPerOperation ==
  [][ emitted' = IF options.RecordMetrics = NilFunc THEN << >>
                 ELSE Performed ]_vars

\* a failed publish was recorded
C15_Witness ==
  /\ options.RecordMetrics # NilFunc
  /\ emitted = << Metric("PubSubPublish", TRUE) >>
  /\ lastRet = "error"

\* --------------------------------------------- properties: decision table
\* the documented action for a payload, by (ignore-self, squash, payload
\* equals LocalID)
Table(ignoreSelf, squash, isSelf) ==
  IF ignoreSelf /\ isSelf THEN "suppress"
  ELSE IF squash THEN "defer"
  ELSE "deliver"

\* C16: for a payload dequeued with a callback installed the processor
\* delivers, defers or suppresses as the decision table says; a suppressed
\* payload invokes nothing and leaves the pending-delivery state, the flag
\* and the payload remembered for a pending flush, as it was.
C16_DecisionTable ==
  [][ /\ (proc.pc = "switch" /\ proc'.pc # "switch")
         => LET a == Table(options.IgnoreSelf, options.SquashMessages,
                           proc.data = options.LocalID) IN
              /\ a = "deliver"
                 => /\ calls' = Append(calls, proc.data)
                    /\ callbackPending' = callbackPending
              /\ a = "defer"
                 => calls' = calls /\ callbackPending' = TRUE
              /\ a = "suppress"
                 => calls' = calls /\ callbackPending' = callbackPending
      /\ ( /\ dequeued' # dequeued
           /\ Last(dequeued').cb
           /\ SelfOrigin(Last(dequeued').data)
           /\ callbackPending )
         => proc'.data = proc.data
    ]_vars

\* C16, the flag and the callback alone: what the switch does to them is
\* what the table says
C16_TableActions ==
  [][ (proc.pc = "switch" /\ proc'.pc # "switch")
        => LET a == Table(options.IgnoreSelf, options.SquashMessages,
                          proc.data = options.LocalID) IN
             /\ a = "deliver"
                => /\ calls' = Append(calls, proc.data)
                   /\ callbackPending' = callbackPending
             /\ a = "defer"
                => calls' = calls /\ callbackPending' = TRUE
             /\ a = "suppress"
                => calls' = calls /\ callbackPending' = callbackPending
    ]_vars

\* ------------------------------------------- properties: message queue
\* the processor is inside the user callback
InCallback == proc.pc \in {"callback", "flush"}

\* C17: while the processor is inside a callback, the subscription loop
\* that holds a payload can hand it to the message queue: its send on
\* messagesIn does not wait for the callback to return.
C17_SendDoesNotBlock ==
  (panicked = NoPanic /\ InCallback /\ pc["sup"] = "send")
    => ENABLED ProcReceive

\* -------------------------------------- properties: subscription loop
\* C18: in the receive loop a transport error ends the loop with the
\* error, a confirmation with count 0 ends it with nil, a confirmation
\* with a count above 0 keeps it running, a payload is put on messagesIn
\* and the loop runs on; the loop's result is returned unchanged, and no
\* step of the loop invokes the callback.
C18_LoopStateMachine ==
  [][ /\ ReceiveStep
         => IF conn[sup.psc] # "live"
            THEN pc'["sup"] = "unsubscribe" /\ sup'.err
            ELSE LET e == Head(inbox[sup.psc]) IN
                   /\ (e.k = "subscription" /\ e.count = 0)
                      => pc'["sup"] = "unsubscribe" /\ ~sup'.err
                   /\ (e.k = "subscription" /\ e.count > 0)
                      => pc'["sup"] = "receive"
                   /\ e.k = "message"
                      => pc'["sup"] = "send" /\ sup'.msg = e.data
      /\ (pc["sup"] = "send" /\ pc'["sup"] # "send")
         => /\ pc'["sup"] = "receive"
            /\ dequeued' = Append(dequeued,
                                  [data |-> sup.msg, cb |-> callback # NilFunc])
      /\ (pc["sup"] = "unsubscribe" /\ pc'["sup"] # "unsubscribe")
         => pc'["sup"] = "sleep" /\ sup'.err = sup.err
      /\ (pc'["sup"] # pc["sup"] \/ sup' # sup) => calls' = calls
    ]_vars

\* the loop delivered a payload to the queue and then stopped cleanly
C18_Witness ==
  /\ pc["sup"] = "sleep"
  /\ sup.psc # Nil
  /\ ~sup.err
  /\ dequeued # << >>

\* subscribe() returns: the supervisor goes on to its sleep
SubscribeReturns ==
  /\ pc["sup"] \in {"subscribe", "receive", "send", "unsubscribe"}
  /\ pc'["sup"] = "sleep"

\* C19 as claimed: every return of subscribe() comes right after its
\* unsubscribe attempt.
C19_UnsubscribeOnEveryExit ==
  [][ SubscribeReturns => pc["sup"] = "unsubscribe" ]_vars

\* C19 (amended): the receive loop is left only through the unsubscribe
\* attempt, which is made once, reports to the sink, and leaves the result
\* of the loop as it was, whether it fails or not; when the SUBSCRIBE
\* request itself fails, subscribe() returns the error and no UNSUBSCRIBE
\* is sent.
C19_UnsubscribeOnLoopExit ==
  [][ /\ (pc["sup"] = "receive" /\ pc'["sup"] \notin {"receive", "send"})
         => pc'["sup"] = "unsubscribe"
      /\ (pc'["sup"] = "unsubscribe" /\ pc["sup"] # "unsubscribe")
         => pc["sup"] = "receive"
      /\ (pc["sup"] = "unsubscribe" /\ pc'["sup"] # "unsubscribe")
         => /\ pc'["sup"] = "sleep"
            /\ sup'.err = sup.err
            /\ conn[sup.psc] = "live" => subs'[sup.psc] = NoChan
            /\ options.RecordMetrics # NilFunc
               => emitted' = << Metric("PubSubUnsubscribe",
                                       conn[sup.psc] # "live") >>
      /\ (pc["sup"] = "subscribe" /\ pc'["sup"] # "subscribe" /\ sup'.err)
         => /\ pc'["sup"] = "sleep"
            /\ subs' = subs /\ inbox' = inbox
            /\ \A i \in 1 .. Len(emitted') :
                 emitted'[i].name # "PubSubUnsubscribe"
    ]_vars

\* a clean stop whose unsubscribe failed: the result is still nil
C19_Witness ==
  /\ pc["sup"] = "sleep"
  /\ ~sup.err
  /\ emitted = << Metric("PubSubUnsubscribe", TRUE) >>

\* ------------------------------------------- properties: retry delay
\* the positions of one attempt of the supervisor: connect(), subscribe()
AttemptPositions ==
  {"connectPub", "connectSub", "subscribe", "receive", "send", "unsubscribe"}

\* C20: every attempt of the supervisor starts at the top of its loop,
\* every attempt, however it ends (connect error, subscribe error, receive
\* error, clean stop), is followed by the retry delay, and the top of the
\* loop is reached again only through that delay: one delay between two
\* consecutive attempts.
C20_OneDelayBetweenAttempts ==
  [][ /\ (pc'["sup"] = "connectPub" /\ pc["sup"] # "connectPub")
         => pc["sup"] = "select"
      /\ (pc["sup"] \in AttemptPositions
            /\ pc'["sup"] \notin AttemptPositions)
         => pc'["sup"] = "sleep"
      /\ (pc["sup"] = "sleep" /\ pc'["sup"] # "sleep")
         => pc'["sup"] = "select"
      /\ (pc'["sup"] = "select" /\ pc["sup"] # "select")
         => pc["sup"] \in {"sleep", "none"}
    ]_vars

\* a second subscription runs, after the delay that followed the first
C20_Witness ==
  /\ pc["sup"] = "receive"
  /\ subscribes = 2
  /\ ~closed

\* ------------------------------------- properties: supervisor and Close
\* a step in which a run of subscribe() ends
LoopTerminates ==
  /\ pc["sup"] \in {"subscribe", "receive", "send", "unsubscribe"}
  /\ pc'["sup"] \notin {"subscribe", "receive", "send", "unsubscribe"}

\* C21: when the watcher is closed at the moment a run of the subscription
\* loop ends, the supervisor returns at once: it does not wait the retry
\* delay and it starts no other connect or subscribe.
C21_ExitsImmediately ==
  [][ /\ (closed /\ LoopTerminates) => pc'["sup"] = "done"
      /\ (closed /\ pc["sup"] \in {"sleep", "select"})
         => pc'["sup"] \in {"sleep", "select", "done"}
    ]_vars

\* the second half of C21: closed during or before the delay, the
\* supervisor starts no other attempt
C21_NoNewAttempt ==
  [][ (closed /\ pc["sup"] \in {"sleep", "select"})
         => pc'["sup"] \in {"sleep", "select", "done"} ]_vars

\* the loop ended on the connection that Close() closed, and the
\* supervisor is in its retry delay
C21_Witness ==
  /\ closed
  /\ pc["sup"] = "sleep"
  /\ sup.err
  /\ closeCalls[sup.psc] = 1

\* ---------------------------------------------- properties: connections
\* a step in which redis.Dial created a connection
Dials == \E c \in DialConns : conn[c] = "unused" /\ conn'[c] # "unused"

\* the handle h of a side for which the caller supplied connection o
Owned(h, o) ==
  IF o # Nil THEN h \in {Nil, o} /\ (Constructed => h = o)
  ELSE h \in {Nil} \cup DialConns

\* C22: on a side with a supplied connection the watcher never dials and
\* its handle, once connected, is the supplied connection; on a side
\* without one the handle is a connection the watcher dialed; this holds
\* through every connect and reconnect.
C22_OwnershipPreserved ==
  [][ /\ Owned(pubConn', options.PubConn)
      /\ Owned(subConn', options.SubConn)
      /\ (Dials /\ \E t \in Threads : pc[t] = "connectPub" /\ pc'[t] # "connectPub")
         => options.PubConn = Nil /\ pubConn' \in {pubConn, FreshConn}
      /\ (Dials /\ \E t \in Threads : pc[t] = "connectSub" /\ pc'[t] # "connectSub")
         => options.SubConn = Nil /\ subConn' \in {subConn, FreshConn}
      /\ (options.PubConn # Nil /\ options.SubConn # Nil) => ~Dials
    ]_vars

\* a reconnect redialed the publish side and kept the supplied subscribe
\* connection
C22_Witness ==
  /\ options.PubConn = Nil /\ options.SubConn = 2
  /\ pubConn = 4 /\ conn[3] = "dead"
  /\ subConn = 2
  /\ pc["sup"] = "subscribe"

\* thread t is at connect()'s test of side p ("connectPub" | "connectSub")
\* and leaves it in this step
ConnectStep(t, p) == pc[t] = p /\ pc'[t] # p

\* connect() returned an error to thread t in this step
ConnectFailed(t) == pc'[t] \in {"failed", "sleep"}

\* C23: when the dial or the AUTH of a side fails, connect() returns the
\* error, the fresh connection, if there is one, is closed, and both
\* handles stay as they were; a handle only ever changes to a supplied
\* connection or to a live dialed one that was not closed; a side whose
\* handle is non-nil and without error is not connected again.
C23_FailedDialNotStored ==
  [][ /\ \A t \in Threads : \A p \in {"connectPub", "connectSub"} :
           /\ (ConnectStep(t, p) /\ ConnectFailed(t))
              => /\ pubConn' = pubConn /\ subConn' = subConn
                 /\ (t = "ctor" => ctorErr')
                 /\ \A c \in DialConns :
                      conn'[c] # conn[c]
                      => /\ c = FreshConn
                         /\ conn'[c] = "dead" /\ closeCalls'[c] = 1
           /\ (ConnectStep(t, p)
                 /\ LET h == IF p = "connectPub" THEN pubConn ELSE subConn
                    IN  h # Nil /\ conn[h] = "live")
              => /\ pubConn' = pubConn /\ subConn' = subConn
                 /\ ~Dials
                 /\ ~ConnectFailed(t)
      /\ \A h \in {pubConn', subConn'} \ {pubConn, subConn} :
           \/ h \in {options.PubConn, options.SubConn}
           \/ h \in DialConns /\ conn'[h] = "live" /\ closeCalls'[h] = 0
    ]_vars

\* the AUTH of a reconnect failed: the fresh connection was closed and the
\* subscribe handle is still the dead connection
C23_Witness ==
  /\ Constructed /\ ~closed
  /\ pc["sup"] = "sleep"
  /\ subConn = 3 /\ conn[3] = "dead"
  /\ conn[4] = "dead" /\ closeCalls[4] = 1

\* ------------------------------------------------ properties: debounce
\* C24: once Close() has completed and the processor goroutine has
\* returned, the callback-pending flag is false, also when Close() was
\* called while a squashed callback was pending.
C24_PendingClearedOnShutdown ==
  (CloseCompleted /\ proc.pc = "done") => ~callbackPending

\* Close() completed and the processor returned
C24_Witness ==
  /\ CloseCompleted /\ proc.pc = "done"
  /\ options.SquashMessages
  /\ dequeued # << >>

\* a payload is marked pending and the processor waits in its select,
\* with n callbacks invoked and m payloads dequeued so far
MarkedPending(n, m) ==
  /\ options.SquashMessages
  /\ callbackPending
  /\ proc.pc = "select"
  /\ Len(calls) = n
  /\ Len(dequeued) = m

\* the timeout has flushed the payload marked pending: one more callback,
\* with the last payload seen, the flag is false, the timeout is long again
Flushed(n) ==
  /\ Len(calls) = n + 1
  /\ Last(calls) = LastInstalled(dequeued)
  /\ ~callbackPending
  /\ proc.pc = "select"
  /\ proc.timeOut = "long"

\* C25: with squashing, once a payload is marked pending, unless the
\* watcher is closed or a further message is dequeued, the timeout fires:
\* the callback is invoked once with the most recently seen payload, the
\* flag becomes false and the timeout is the long one again.
C25_DebounceFlush ==
  \A n \in 0 .. MaxLiveUpdate : \A m \in 1 .. MaxLiveUpdate :
    MarkedPending(n, m) ~> (closed \/ Len(dequeued) > m \/ Flushed(n))

\* C25 but for a panic of the processor
C25_FlushUnlessPanic ==
  \A n \in 0 .. MaxLiveUpdate : \A m \in 1 .. MaxLiveUpdate :
    MarkedPending(n, m)
      ~> (closed \/ Len(dequeued) > m \/ Flushed(n) \/ panicked # NoPanic)

\* the flush happened
C25_Witness ==
  /\ options.SquashMessages
  /\ ~closed
  /\ Flushed(0)
  /\ calls = << PeerID >>

\* the debounce state without squashing: nothing pending, the long
\* timeout, no flush in progress
Inert ==
  /\ ~callbackPending
  /\ proc.timeOut = "long"
  /\ proc.pc # "flush"

\* a step of the processor out of its select that takes no payload: the
\* timeout branch or the closed branch
TimeoutOrClosed == proc.pc = "select" /\ dequeued' = dequeued

\* C26: without squashing the callback-pending flag is false and the
\* timeout is the long one in every state, and a timeout invokes no
\* callback.
C26_DebounceInert ==
  /\ [](~options.SquashMessages => Inert)
  /\ [][ (~options.SquashMessages /\ TimeoutOrClosed)
           => calls' = calls /\ proc'.pc \in {"select", "done"} ]_vars

\* without squashing, payloads were delivered and suppressed, and the
\* processor waits on its timeout
C26_Witness ==
  /\ ~options.SquashMessages /\ options.IgnoreSelf
  /\ Len(dequeued) = 2
  /\ Len(calls) = 1
  /\ proc.pc = "select"
  /\ ~closed

\* ---------------------------------------------------- properties: panics
\* C27: on a constructed watcher no step panics: none calls a nil
\* callback, uses a nil connection handle or closes w.closed twice.
C27_NoPanic == panicked = NoPanic

\* the part of C27 about Close(): no nil handle is used, w.closed is not
\* closed twice
C27_NoClosePanic == panicked \notin ClosePanics

\* a callback was removed while a payload was pending, and the timeout
\* fired
C27_Witness ==
  /\ panicked = "nil callback"
  /\ callback = NilFunc
  /\ options.SquashMessages
  /\ ~callbackPending
  /\ proc.pc = "select"

\* --------------------------------------------- properties: shared handles
\* the tasks whose next step reads, writes or uses w.pubConn: the
\* supervisor in connect(), the caller of Update(), a caller of Close()
PubAccessors ==
  (IF pc["sup"] = "connectPub" THEN {"sup"} ELSE {})
  \cup (IF upd.pc = "publish" THEN {"update"} ELSE {})
  \cup { c \in Closers : closer[c] = "closePub" }

\* the same for w.subConn and the PubSubConn made of it
SubAccessors ==
  (IF pc["sup"] \in {"connectSub", "subscribe", "receive", "unsubscribe"}
   THEN {"sup"} ELSE {})
  \cup { c \in Closers : closer[c] = "closeSub" }

\* C28: in no state are two different tasks about to access the same
\* connection handle.
C28_ExclusiveAccess ==
  /\ Cardinality(PubAccessors) <= 1
  /\ Cardinality(SubAccessors) <= 1

\* the supervisor is about to replace the publish handle that a running
\* Update() is about to use
C28_Witness ==
  /\ ~closed
  /\ pc["sup"] = "connectPub"
  /\ NeedsConnect(pubConn)
  /\ ~Supplied(options.PubConn)
  /\ upd.pc = "publish"

\* ------------------------------------------- properties: connect result
\* connect() passed the publish side without error in this step
PubSideOk(t) == pc[t] = "connectPub" /\ pc'[t] = "connectSub"

\* connect() passed the subscribe side and returned nil in this step
ConnectReturnsNil(t) ==
  pc[t] = "connectSub" /\ pc'[t] \in {"start", "subscribe"}

\* C29: when connect() returns nil, at construction or at a reconnect,
\* both handles are non-nil, and each side was without error when
\* connect() was done with it, supplied or dialed.
C29_ConnectEnsuresLive ==
  [][ \A t \in Threads :
        /\ PubSideOk(t) => pubConn' # Nil /\ conn'[pubConn'] = "live"
        /\ ConnectReturnsNil(t)
           => /\ pubConn' # Nil
              /\ subConn' # Nil /\ conn'[subConn'] = "live"
    ]_vars

\* C29 for the sides the watcher dials
C29_DialedLive ==
  [][ \A t \in Threads :
        /\ (PubSideOk(t) /\ ~Supplied(options.PubConn))
           => pubConn' # Nil /\ conn'[pubConn'] = "live"
        /\ ConnectReturnsNil(t)
           => /\ pubConn' # Nil /\ subConn' # Nil
              /\ ~Supplied(options.SubConn) => conn'[subConn'] = "live"
    ]_vars

\* a reconnect returned nil with the supplied subscribe connection, which
\* is broken
C29_Witness ==
  /\ ~closed
  /\ pc["sup"] = "subscribe"
  /\ subConn = options.SubConn
  /\ conn[subConn] = "dead"
  /\ closeCalls[subConn] = 0

\* ------------------------------------------ properties: callback count
\* C30: the callback has been invoked at most once per payload that was
\* dequeued with a callback installed and is not self-origin, and a
\* timeout with nothing pending invokes nothing.
C30_NoSpuriousCallback ==
  /\ [](Len(calls) <= Len(Deliverable(dequeued)))
  /\ [][ (TimeoutOrClosed /\ ~callbackPending) => calls' = calls ]_vars

\* two payloads were squashed into one callback, and the processor waits
\* on its timeout with nothing pending
C30_Witness ==
  /\ options.SquashMessages
  /\ Len(Deliverable(dequeued)) = 2
  /\ Len(calls) = 1
  /\ ~callbackPending
  /\ proc.pc = "select"
  /\ ~closed

\* -------------------------------------------- properties: connection leak
\* a connection redis.Dial created on which Close() was never called
OpenDialed(c) == c \in DialConns /\ conn[c] # "unused" /\ closeCalls[c] = 0

\* the watcher still holds c and will close it in Close()
HeldForClose(c) ==
  /\ c \in {pubConn, subConn}
  /\ pc["ctor"] # "failed"
  /\ ~CloseCompleted

\* C31: a connection the watcher dialed and has not closed is one it still
\* holds and will close: none is left open by a constructor that failed
\* part-way, none when a reconnect replaced it, none after Close().
C31_NoConnectionLeak ==
  \A c \in DialConns : OpenDialed(c) => HeldForClose(c)

\* the constructor failed on the subscribe side and returned no watcher;
\* the publish connection it dialed is live and was never closed
C31_Witness ==
  /\ pc["ctor"] = "failed"
  /\ pubConn \in DialConns
  /\ conn[pubConn] = "live"
  /\ OpenDialed(pubConn)
  /\ subConn = Nil

\* a reconnect replaced a dialed connection without closing it
C31_ReplacedUnclosed ==
  \E c \in DialConns :
    OpenDialed(c) /\ c \notin {pubConn, subConn} /\ ~closed /\ Constructed

====
